---------------------------- MODULE Spec2Model ----------------------------
(***************************************************************************)
(* Model of services/audio_replay.py: the AudioAsset record, the           *)
(* AudioReplayService (save_last_audio, replay_iterator,                   *)
(* handle_rpc_replay, clear_audio) and the replay_last_audio RPC wrapper.  *)
(*                                                                         *)
(* The service runs on one asyncio event loop.  A task only gives up      *)
(* control where it awaits something that is not ready: the service lock   *)
(* when it is held, and a session.say() call.  Every action below is one   *)
(* such uninterrupted segment of a task.  The coroutines awaited inside    *)
(* save_last_audio contain no suspension point, so a capture is a single   *)
(* action once it owns the lock.                                           *)
(***************************************************************************)
EXTENDS Integers, Sequences, FiniteSets, TLC

(***************************************************************************)
(* Bounds of the model.                                                    *)
(***************************************************************************)
\* configured maximum buffer size, in bytes (max_buffer_size_mb * 1024 * 1024)
MaxBufferBytes == 12
\* captures that may be issued in one behaviour
MaxCaptures == 2
\* replay requests that may change a replay counter in one behaviour
MaxReplays == 2
\* the latest reading of the token server's clock, in seconds
MaxClock == 480

(***************************************************************************)
(* Program constants.                                                      *)
(***************************************************************************)
DefaultSampleRate == 16000
DefaultChannels == 1
ChunkDurationMs == 20
BytesPerSample == 2
\* a stored token is reused while it is younger than this many seconds
ReuseWindow == 480

(***************************************************************************)
(* Characters and text.  A text is a sequence of one-character strings.    *)
(***************************************************************************)
IsSpace(c) == c = " "

IsDigit(c) == c \in {"0", "1", "2", "3", "4", "5", "6", "7", "8", "9"}

IsAP(c) == c \in {"a", "p", "A", "P"}

IsM(c) == c \in {"m", "M"}

\* s[i], or a character of no class when i is past the end
At(s, i) == IF i >= 1 /\ i <= Len(s) THEN s[i] ELSE "<end>"

\* first position >= i that holds no whitespace (Len(s) + 1 when there is none)
RECURSIVE SkipSpaces(_, _)
SkipSpaces(s, i) ==
    IF i <= Len(s) /\ IsSpace(s[i]) THEN SkipSpaces(s, i + 1) ELSE i

\* \d{1,2}:\d{2} at position i: the position after it, or 0
MatchMinutes(s, d) ==
    IF d # 0 /\ IsDigit(At(s, d)) /\ IsDigit(At(s, d + 1)) THEN d + 2 ELSE 0

MatchClock(s, i) ==
    MatchMinutes(s, IF IsDigit(At(s, i)) /\ At(s, i + 1) = ":" THEN i + 2
                    ELSE IF IsDigit(At(s, i)) /\ IsDigit(At(s, i + 1)) /\ At(s, i + 2) = ":"
                         THEN i + 3
                         ELSE 0)

\* \s*\d{1,2}:\d{2}\s*[ap]\.?\s*m\.?\s* matched from position i (greedy):
\* the position after the match, or 0 when the pattern does not match at i
\* m\.?\s* at position m
MatchM(s, m) ==
    IF ~IsM(At(s, m)) THEN 0
    ELSE SkipSpaces(s, IF At(s, m + 1) = "." THEN m + 2 ELSE m + 1)

\* [ap]\.?\s*m\.?\s* at position a
MatchMeridiem(s, a) ==
    IF ~IsAP(At(s, a)) THEN 0
    ELSE MatchM(s, SkipSpaces(s, IF At(s, a + 1) = "." THEN a + 2 ELSE a + 1))

\* \s*[ap]\.?\s*m\.?\s* after a clock that ended before position c
MatchAfterClock(s, c) == IF c = 0 THEN 0 ELSE MatchMeridiem(s, SkipSpaces(s, c))

MatchTimestamp(s, i) == MatchAfterClock(s, MatchClock(s, SkipSpaces(s, i)))

\* re.sub of the pattern anchored with $: the leftmost match that ends the text
RECURSIVE SubFinal(_, _)
SubFinal(s, i) ==
    IF i > Len(s) THEN s
    ELSE IF MatchTimestamp(s, i) = Len(s) + 1 THEN SubSeq(s, 1, i - 1)
         ELSE SubFinal(s, i + 1)

\* re.sub of the pattern anchored with ^
DropPrefix(s, e) == IF e # 0 THEN SubSeq(s, e, Len(s)) ELSE s

SubInitial(s) == DropPrefix(s, MatchTimestamp(s, 1))

\* re.sub of the unanchored pattern: every match, left to right
RECURSIVE SubMiddle(_, _)
\* position i when the match there ends before position e (0: no match)
SubMiddleAt(s, i, e) ==
    IF e # 0 THEN SubMiddle(s, e) ELSE <<s[i]>> \o SubMiddle(s, i + 1)

SubMiddle(s, i) ==
    IF i > Len(s) THEN << >> ELSE SubMiddleAt(s, i, MatchTimestamp(s, i))

\* str.strip()
RECURSIVE StripRight(_)
StripRight(s) ==
    IF Len(s) > 0 /\ IsSpace(s[Len(s)]) THEN StripRight(SubSeq(s, 1, Len(s) - 1)) ELSE s

Strip(s) == StripRight(SubSeq(s, SkipSpaces(s, 1), Len(s)))

\* ' '.join(s.split()): runs of whitespace become one blank, none at the ends
RECURSIVE SplitJoin(_, _)
\* a run of whitespace from position i to before position e
SplitJoinRun(s, i, e) ==
    IF i = 1 \/ e > Len(s) THEN SplitJoin(s, e) ELSE <<" ">> \o SplitJoin(s, e)

SplitJoin(s, i) ==
    IF i > Len(s) THEN << >>
    ELSE IF IsSpace(s[i]) THEN SplitJoinRun(s, i, SkipSpaces(s, i))
         ELSE <<s[i]>> \o SplitJoin(s, i + 1)

\* AudioReplayService._clean_text_content
CleanTextContent(raw_text) ==
    IF raw_text = << >> THEN << >>
    ELSE Strip(SplitJoin(SubMiddle(SubInitial(SubFinal(raw_text, 1)), 1), 1))


(***************************************************************************)
(* AudioAsset.  duration_seconds is the float total_samples / sample_rate; *)
(* it is kept as the exact fraction dur_num / dur_den (0.0 is 0 / 1).      *)
(***************************************************************************)
\* AudioAsset(): the dataclass defaults; created_at is the construction time
EmptyAsset ==
    [buffer |-> << >>, sample_rate |-> DefaultSampleRate, channels |-> DefaultChannels,
     frame_count |-> 0, text_content |-> << >>, clean_text |-> << >>,
     created_at |-> 0, dur_num |-> 0, dur_den |-> 1]

\* duration_seconds > 0.1
DurationOverMinimum(a) == 10 * a.dur_num > a.dur_den

\* AudioAsset.is_valid
IsValid(a) ==
    /\ Len(a.buffer) > 0
    /\ a.frame_count > 0
    /\ Len(Strip(a.clean_text)) > 0
    /\ DurationOverMinimum(a)

\* a clear that empties the buffer alone
ClearAssetBufferOnly(a) == [a EXCEPT !.buffer = << >>]

\* AudioAsset.clear: sample_rate, channels and created_at are left as they are
ClearAsset(a) ==
    [a EXCEPT !.buffer = << >>, !.text_content = << >>, !.clean_text = << >>,
              !.frame_count = 0, !.dur_num = 0, !.dur_den = 1]

(***************************************************************************)
(* Speech handles.  chat_message is "absent" (the handle has no such       *)
(* attribute), "none" (the attribute is None) or "present".  A content     *)
(* item is an AudioContent (kind "audio", a list of frames), an item with  *)
(* a text attribute (kind "text") or anything else (kind "other").  A      *)
(* frame or text item marked bad makes the code that reads it raise.       *)
(***************************************************************************)
\* n bytes of PCM data, each byte its own value
Pcm(first, n) == [i \in 1..n |-> first + i - 1]

\* an rtc.AudioFrame of spc samples per channel
Frame(first, spc, rate, ch) ==
    [data |-> Pcm(first, spc * BytesPerSample * (IF ch > 0 THEN ch ELSE 1)),
     sample_rate |-> rate, num_channels |-> ch, bad |-> FALSE]

BadFrame(first, spc) == [Frame(first, spc, 50, 1) EXCEPT !.bad = TRUE]

AudioItem(frames) == [kind |-> "audio", frame |-> frames]

TextItem(t) == [kind |-> "text", text |-> t, bad |-> FALSE]

OtherItem == [kind |-> "other"]

HasContent(h) == h.chat_message = "present" /\ h.content # << >>

\* one frame with data is appended (lines 248-261); reading the metadata of
\* a bad frame raises after its data has been appended
AppendFrame(st, f) ==
    [buffer |-> st.buffer \o f.data,
     count |-> st.count + 1,
     samples |-> st.samples + (Len(f.data) \div 2),
     sample_rate |-> IF ~f.bad /\ f.sample_rate > 0 THEN f.sample_rate ELSE st.sample_rate,
     channels |-> IF ~f.bad /\ f.num_channels > 0 THEN f.num_channels ELSE st.channels,
     raised |-> f.bad]

\* the loop over the frames of the first AudioContent (lines 247-261):
\* st is the buffer being filled, the metadata and the loop's locals
RECURSIVE ConcatFrames(_, _, _)
ConcatFrames(frames, i, st) ==
    IF i > Len(frames) \/ st.raised THEN st
    ELSE IF Len(frames[i].data) = 0 THEN ConcatFrames(frames, i + 1, st)
         ELSE ConcatFrames(frames, i + 1, AppendFrame(st, frames[i]))

\* the AudioContent items that carry frames (lines 225-229)
AudioItems(content) ==
    SelectSeq(content, LAMBDA c : c.kind = "audio" /\ c.frame # << >>)

\* lines 263-268: the asset (already cleared) takes what the loop gathered;
\* when the loop raised, frame_count and duration_seconds are never assigned
StoreFrames(cleared, st) ==
    [asset |->
        [cleared EXCEPT
           !.buffer = st.buffer,
           !.sample_rate = st.sample_rate,
           !.channels = st.channels,
           !.frame_count = IF st.raised THEN @ ELSE st.count,
           !.dur_num = IF ~st.raised /\ st.samples > 0 /\ st.sample_rate > 0
                       THEN st.samples ELSE @,
           !.dur_den = IF ~st.raised /\ st.samples > 0 /\ st.sample_rate > 0
                       THEN st.sample_rate ELSE @],
     raised |-> st.raised]

\* lines 221-268 on the cleared asset, given the audio items of the handle
CaptureFrames(cleared, items) ==
    IF items = << >> THEN [asset |-> cleared, raised |-> FALSE]
    ELSE StoreFrames(cleared,
                     ConcatFrames(items[1].frame, 1,
                                  [buffer |-> << >>, count |-> 0, samples |-> 0,
                                   sample_rate |-> cleared.sample_rate,
                                   channels |-> cleared.channels, raised |-> FALSE]))

\* AudioReplayService._capture_audio_content: [asset, raised]
CaptureAudioContent(a, h) ==
    IF ~HasContent(h) THEN [asset |-> a, raised |-> FALSE]
    ELSE CaptureFrames(ClearAsset(a), AudioItems(h.content))

\* the items whose text attribute is non-empty (lines 289-291)
TextItems(content) ==
    SelectSeq(content, LAMBDA c : c.kind = "text" /\ c.text # << >>)

\* " ".join of the stripped texts
RECURSIVE JoinTexts(_, _)
JoinTexts(items, i) ==
    IF i > Len(items) THEN << >>
    ELSE IF i = Len(items) THEN Strip(items[i].text)
         ELSE Strip(items[i].text) \o <<" ">> \o JoinTexts(items, i + 1)

\* lines 298-303
StoreText(a, raw_text) ==
    [a EXCEPT !.text_content = raw_text, !.clean_text = CleanTextContent(raw_text)]

\* lines 287-303, given the text items of the handle; stripping the text of
\* a bad item raises
CaptureTexts(a, items) ==
    IF \E i \in 1..Len(items) : items[i].bad THEN [asset |-> a, raised |-> TRUE]
    ELSE IF items = << >> THEN [asset |-> a, raised |-> FALSE]
         ELSE [asset |-> StoreText(a, JoinTexts(items, 1)), raised |-> FALSE]

\* AudioReplayService._capture_text_content: [asset, raised]
CaptureTextContent(a, h) ==
    IF ~HasContent(h) THEN [asset |-> a, raised |-> FALSE]
    ELSE CaptureTexts(a, TextItems(h.content))

\* the buffer kept whole
UntruncatedBuffer(buffer) == buffer

\* asset.buffer[:max_bytes] when the size test of line 346 finds it too large
TruncatedBuffer(buffer) ==
    IF Len(buffer) > MaxBufferBytes THEN SubSeq(buffer, 1, MaxBufferBytes) ELSE buffer

\* the duration recomputed after a truncation (lines 356-358)
TruncatedDuration(a, cut) ==
    IF Len(a.buffer) > MaxBufferBytes /\ a.sample_rate > 0
    THEN [num |-> Len(cut) \div 2, den |-> a.sample_rate]
    ELSE [num |-> a.dur_num, den |-> a.dur_den]

\* AudioReplayService._finalize_audio_asset at time now
FinalizeAudioAsset(a, now) ==
    [a EXCEPT !.buffer = TruncatedBuffer(a.buffer),
              !.dur_num = TruncatedDuration(a, TruncatedBuffer(a.buffer)).num,
              !.dur_den = TruncatedDuration(a, TruncatedBuffer(a.buffer)).den,
              !.created_at = now]

\* line 188 and what the capture leaves: the asset, whether an exception was
\* caught, and the contents the asset's previous bytearray object is left
\* with (slicing in _finalize_audio_asset binds asset.buffer to a new object)
FinishCapture(a, now) ==
    [asset |-> FinalizeAudioAsset(a, now), raised |-> FALSE, old_object |-> a.buffer,
     rebound |-> Len(a.buffer) > MaxBufferBytes]

AbortCapture(a) ==
    [asset |-> a, raised |-> TRUE, old_object |-> a.buffer, rebound |-> FALSE]

\* lines 187-188 after _capture_audio_content has returned
CaptureAfterAudio(tx, now) ==
    IF tx.raised THEN AbortCapture(tx.asset) ELSE FinishCapture(tx.asset, now)

\* lines 186-188
CaptureSteps(au, h, now) ==
    IF au.raised THEN AbortCapture(au.asset)
    ELSE CaptureAfterAudio(CaptureTextContent(au.asset, h), now)

\* the body of save_last_audio under the lock (lines 184-209) on asset a
CaptureBody(a, h, now) == CaptureSteps(CaptureAudioContent(a, h), h, now)

(***************************************************************************)
(* Inputs: the speech handles a capture may be given.                      *)
(***************************************************************************)
TextHola == <<"H", "o", "l", "a">>

TextHolaStamp == <<"H", "o", "l", "a", " ", "3", ":", "5", "7", " ", "p", ".", " ", "m", ".">>

TextStampOnly == <<"3", ":", "5", "7", " ", "p", "m">>

Handle(content) == [chat_message |-> "present", content |-> content]

\* a handle without a chat_message attribute
HandleNoAttribute == [chat_message |-> "absent", content |-> << >>]

\* chat_message is None
HandleNoMessage == [chat_message |-> "none", content |-> << >>]

\* chat_message.content is empty
HandleEmptyContent == Handle(<< >>)

\* content items that are neither audio nor text
HandleOtherOnly == Handle(<<OtherItem>>)

HandleTextOnly == Handle(<<TextItem(TextHola)>>)

\* mono, 50 Hz, 3 + 3 samples: 12 bytes, 0.12 s
HandleMono == Handle(<<AudioItem(<<Frame(1, 3, 50, 1), Frame(7, 3, 50, 1)>>),
                       TextItem(TextHolaStamp)>>)

\* stereo, 50 Hz, 2 + 1 samples per channel: 12 bytes, 0.06 s of audio
HandleStereo == Handle(<<AudioItem(<<Frame(21, 2, 50, 2), Frame(29, 1, 50, 2)>>),
                         TextItem(TextHola)>>)

\* mono, 50 Hz, 4 + 3 samples: 14 bytes, over the configured maximum
HandleLong == Handle(<<TextItem(TextHola),
                       AudioItem(<<Frame(41, 4, 50, 1), Frame(49, 3, 50, 1)>>)>>)

\* frames without sample-rate and channel metadata
HandleNoMetadata == Handle(<<AudioItem(<<Frame(61, 3, 0, 0), Frame(67, 3, 0, 0)>>),
                             TextItem(TextHola)>>)

\* audio only: no text item
HandleAudioOnly == Handle(<<AudioItem(<<Frame(71, 6, 50, 1)>>)>>)

\* a text that is nothing but a timestamp
HandleStampOnly == Handle(<<AudioItem(<<Frame(1, 3, 50, 1), Frame(7, 3, 50, 1)>>),
                            TextItem(TextStampOnly)>>)

\* too short to be valid: 4 samples at 50 Hz
HandleShort == Handle(<<AudioItem(<<Frame(81, 4, 50, 1)>>), TextItem(TextHola)>>)

\* a frame whose metadata cannot be read: the capture raises
HandleBadFrame == Handle(<<AudioItem(<<Frame(1, 3, 50, 1), BadFrame(7, 3)>>),
                           TextItem(TextHola)>>)

\* a text item whose text cannot be stripped: the capture raises
HandleBadText == Handle(<<AudioItem(<<Frame(1, 3, 50, 1), Frame(7, 3, 50, 1)>>),
                          [TextItem(TextHola) EXCEPT !.bad = TRUE]>>)

\* mono, 40 Hz, 5 samples: 10 bytes, 0.125 s; 20 ms of it are less than a sample
HandleLowRate == Handle(<<AudioItem(<<Frame(91, 5, 40, 1)>>), TextItem(TextHola)>>)

\* the handles of the concurrent specification
Handles ==
    {HandleNoAttribute, HandleEmptyContent, HandleTextOnly, HandleMono, HandleLong}

\* the handles of the capture-only specification
AllHandles ==
    Handles \cup {HandleNoMessage, HandleOtherOnly, HandleStereo, HandleNoMetadata,
                  HandleAudioOnly, HandleStampOnly, HandleShort, HandleBadFrame,
                  HandleBadText}

(***************************************************************************)
(* The token server (services/token_server.py).  A room name is a          *)
(* sequence of strings (empty: no room given); a token is the record of    *)
(* what the JWT is built from; created_at is kept as the clock reading     *)
(* that isoformat() writes and fromisoformat() reads back unchanged.       *)
(* Requests are served one at a time.                                      *)
(***************************************************************************)
\* generate_room_name: a name derived from the user id alone
GenerateRoomName(user_id) == <<"virtual_partner_", user_id>>

\* str.lower() on the io modes a request may carry
Lower(s) == IF s = "VOICE" THEN "voice" ELSE IF s = "TEXT" THEN "text" ELSE s

\* lines 148-151: an unknown io mode becomes "hybrid"
ValidIoMode(m) == IF m \in {"text", "voice", "hybrid"} THEN m ELSE "hybrid"

\* _validate_request_data, for a request that carries an identity; "" and
\* << >> stand for a field that is missing or empty
ValidateRequestData(data) ==
    [identity |-> data.identity,
     user_id |-> IF data.user_id = "" THEN data.identity ELSE data.user_id,
     room |-> IF data.room = << >>
              THEN GenerateRoomName(IF data.user_id = "" THEN data.identity
                                    ELSE data.user_id)
              ELSE data.room,
     io_mode |-> ValidIoMode(Lower(data.io_mode)),
     persona_id |-> IF data.persona_id = "" THEN "rosalia" ELSE data.persona_id]

\* _create_metadata: the metadata dictionary
CreateMetadata(io_mode, persona_id) == [io_mode |-> io_mode, persona_id |-> persona_id]

\* _create_access_token at clock reading t: what the JWT encodes
CreateAccessToken(identity, room, io_mode, persona_id, t) ==
    [identity |-> identity, room |-> room, io_mode |-> io_mode,
     persona_id |-> persona_id, issued_at |-> t]

\* the JSON body of a getToken response
TokenResponse(token, room, user_id, metadata) ==
    [status |-> 200, token |-> token, room |-> room, user_id |-> user_id,
     metadata |-> metadata]

NoToken == CreateAccessToken("", << >>, "", "", 0)

\* a response that carries no token
PlainResponse(status) == [TokenResponse(NoToken, << >>, "", CreateMetadata("", ""))
                            EXCEPT !.status = status]

NoResponse == PlainResponse(0)

\* the tests of lines 96-103 without the test of the room (line 104)
StoredTokenUsableAnyRoom(session, room, io_mode, persona_id, t) ==
    /\ session.metadata.io_mode = io_mode
    /\ session.metadata.persona_id = persona_id
    /\ t - session.created_at < ReuseWindow

\* lines 96-104: the stored session may be answered with
StoredTokenUsable(session, room, io_mode, persona_id, t) ==
    /\ session.metadata.io_mode = io_mode
    /\ session.metadata.persona_id = persona_id
    /\ t - session.created_at < ReuseWindow
    /\ session.room = room

\* _check_existing_token at clock reading t: a response, or NoResponse (None)
CheckExistingToken(sessions, user_id, room, io_mode, persona_id, t) ==
    IF user_id \in DOMAIN sessions
       /\ StoredTokenUsable(sessions[user_id], room, io_mode, persona_id, t)
    THEN TokenResponse(sessions[user_id].token, room, user_id,
                       sessions[user_id].metadata)
    ELSE NoResponse

\* the dictionary d with d[k] = v
Store(d, k, v) == [x \in DOMAIN d \cup {k} |-> IF x = k THEN v ELSE d[x]]

\* del d[k]
Delete(d, k) == [x \in DOMAIN d \ {k} |-> d[x]]

\* _save_session at clock reading t
SaveSession(sessions, user_id, token, room, identity, metadata, t) ==
    Store(sessions, user_id,
          [token |-> token, room |-> room, identity |-> identity, created_at |-> t,
           metadata |-> metadata])

\* lines 329-351 for the validated request q: [sessions, response]
IssueToken(sessions, q, token, t) ==
    [sessions |-> SaveSession(sessions, q.user_id, token, q.room, q.identity,
                              CreateMetadata(q.io_mode, q.persona_id), t),
     response |-> TokenResponse(token, q.room, q.user_id,
                                CreateMetadata(q.io_mode, q.persona_id))]

\* lines 324-351, given the answer of _check_existing_token
AnswerToken(sessions, q, existing, t) ==
    IF existing # NoResponse THEN [sessions |-> sessions, response |-> existing]
    ELSE IssueToken(sessions, q,
                    CreateAccessToken(q.identity, q.room, q.io_mode, q.persona_id, t), t)

\* get_token for the validated request q at clock reading t
GetTokenFor(sessions, q, t) ==
    AnswerToken(sessions, q,
                CheckExistingToken(sessions, q.user_id, q.room, q.io_mode,
                                   q.persona_id, t), t)

\* a request without a JSON body
NoData == [identity |-> "", user_id |-> "", room |-> << >>, io_mode |-> "",
           persona_id |-> ""]

\* the JSON bodies of the getToken requests
TokenRequests ==
    [identity : {"ana"}, user_id : {"", "luis"}, room : {<< >>, <<"sala">>},
     io_mode : {"VOICE", "video"}, persona_id : {"", "lola"}]

\* the seconds that pass between two requests
Pauses == {239, 240}

(***************************************************************************)
(* State.                                                                  *)
(***************************************************************************)
VARIABLES
    asset,            \* _current_asset (buffer: the contents of its bytearray)
    is_capturing,     \* _is_capturing
    is_replaying,     \* _is_replaying
    total_captures,   \* _total_captures
    total_replays,    \* _total_replays
    failed_captures,  \* _failed_captures
    failed_replays,   \* _failed_replays
    lock,             \* the task that holds _lock, or NoTask
    waiters,          \* the tasks waiting for _lock, first come first served
    now,              \* the clock read by time.time()
    req,              \* the replay_last_audio invocations
    cap,              \* the save_last_audio task and the handle it was last given
    sayq,             \* the session's queue of say() calls, one played at a time
    active_sessions,  \* the token server's dictionary user_id -> session
    clock,            \* the clock read by datetime.now(), in seconds
    http_request,     \* the request the token server served last, and when
    http_response,    \* and its response
    audio_replay_service,  \* _audio_replay_service: NoService or an instance
    service_lock,     \* the caller that holds _service_lock, or NoCaller
    instances,        \* the number of AudioReplayService objects constructed
    callers           \* the calls of get_audio_replay_service

\* the state of the token server
server == <<active_sessions, clock, http_request, http_response>>

\* the module-level singleton
registry == <<audio_replay_service, service_lock, instances, callers>>

\* the state of the audio replay service
replay == <<asset, is_capturing, is_replaying, total_captures, total_replays,
            failed_captures, failed_replays, lock, waiters, now, req, cap, sayq>>

vars == <<asset, is_capturing, is_replaying, total_captures, total_replays,
          failed_captures, failed_replays, lock, waiters, now, req, cap, sayq,
          active_sessions, clock, http_request, http_response,
          audio_replay_service, service_lock, instances, callers>>

counters == <<total_captures, total_replays, failed_captures, failed_replays>>

\* the concurrent replay_last_audio invocations
Reqs == {1, 2}

NoTask == <<"none", 0>>

ReqTask(r) == <<"req", r>>

IterTask(r) == <<"iter", r>>

CapTask == <<"cap", 0>>

Remove(seq, x) == SelectSeq(seq, LAMBDA y : y # x)

\* the JSON response of an invocation; the metadata is that of a success
NoResult ==
    [status |-> "none", success |-> FALSE, text |-> << >>, dur_num |-> 0, dur_den |-> 1,
     frame_count |-> 0, created_at |-> 0]

Response(status) == [NoResult EXCEPT !.status = status]

\* success_response (lines 550-560), read from the asset current at that moment
SuccessResponse(a) ==
    [status |-> "success", success |-> TRUE, text |-> a.clean_text, dur_num |-> a.dur_num,
     dur_den |-> a.dur_den, frame_count |-> a.frame_count, created_at |-> a.created_at]

\* a CancelledError leaves handle_rpc_replay and _rpc_replay_audio: no response
Propagated == Response("CancelledError")

\* a replay_iterator() that has not been created or has been closed
NoIter ==
    [it_pc |-> "none", it_alias |-> FALSE, it_buf |-> << >>, it_off |-> 0,
     it_rate |-> 0, it_ch |-> 0, it_snap |-> << >>, it_sent |-> << >>, it_frames |-> 0,
     it_checked |-> << >>, it_meta |-> NoResult]

\* an invocation slot: where the invocation stands, its response, the outcome
\* of its checks ("none" before them), how its apology ended ("none", "spoken"
\* or "raised") and, until it returns, whether another invocation was playing
\* when it was called and the value of total_replays at that moment
IdleReq ==
    [pc |-> "idle", result |-> NoResult, checked |-> "none", apology |-> "none",
     called_during_playback |-> FALSE, total_at_call |-> 0]
    @@ NoIter

\* request q returned with response res: what was remembered of its call is
\* dropped
Returned(q, res) ==
    [q EXCEPT !.pc = "done", !.result = res, !.called_during_playback = FALSE,
              !.total_at_call = 0]

\* request q with its iterator closed
CloseIter(q) == [f \in DOMAIN q |-> IF f \in DOMAIN NoIter THEN NoIter[f] ELSE q[f]]

\* the tasks that call get_audio_replay_service, and how often each one does
MaxCallers == 3
MaxCalls == 2
Callers == 1..MaxCallers
NoCaller == 0

\* None; the instances are numbered in the order of their construction
NoService == 0

\* a caller that is not inside get_audio_replay_service: the number of calls
\* it has made and what the last one returned
IdleCaller == [pc |-> "idle", calls |-> 0, returned |-> NoService]

Init ==
    /\ asset = EmptyAsset
    /\ is_capturing = FALSE
    /\ is_replaying = FALSE
    /\ total_captures = 0
    /\ total_replays = 0
    /\ failed_captures = 0
    /\ failed_replays = 0
    /\ lock = NoTask
    /\ waiters = << >>
    /\ now = 0
    /\ req = [r \in Reqs |-> IdleReq]
    /\ cap = [pc |-> "idle", handle |-> HandleNoAttribute]
    /\ sayq = << >>
    /\ active_sessions = << >>
    /\ clock = 0
    /\ http_request = [endpoint |-> "none", data |-> NoData, at |-> 0]
    /\ http_response = NoResponse
    /\ audio_replay_service = NoService
    /\ service_lock = NoCaller
    /\ instances = 0
    /\ callers = [c \in Callers |-> IdleCaller]

(***************************************************************************)
(* save_last_audio and clear_audio.                                        *)
(***************************************************************************)
\* every capture counted as a success
TotalCapturesCountsAll(n, res) == n + 1

\* the counters after the capture body (lines 190-206)
TotalCapturesAfter(n, res) == IF ~res.raised /\ IsValid(res.asset) THEN n + 1 ELSE n

\* a capture that raised is not counted
FailedCapturesInvalidOnly(n, res) == IF ~res.raised /\ ~IsValid(res.asset) THEN n + 1 ELSE n

\* the except clause of lines 205-206 counts the capture that raised
FailedCapturesAfter(n, res) == IF res.raised \/ ~IsValid(res.asset) THEN n + 1 ELSE n

\* a capture without the cleanup of its finally block
CapturingStaysSet == TRUE

\* _is_capturing when save_last_audio leaves its finally block (line 209)
CapturingAfterCapture == FALSE

\* an iterator that holds the asset's bytearray keeps that object when the
\* capture binds asset.buffer to a truncated copy
Detach(q, res) ==
    IF q.it_pc = "streaming" /\ q.it_alias /\ res.rebound
    THEN [q EXCEPT !.it_alias = FALSE, !.it_buf = res.old_object]
    ELSE q

\* lines 184-209, run without suspension by the task that owns the lock
CaptureEffect(res) ==
    /\ asset' = res.asset
    /\ now' = now + 1
    /\ total_captures' = TotalCapturesAfter(total_captures, res)
    /\ failed_captures' = FailedCapturesAfter(failed_captures, res)
    /\ is_capturing' = CapturingAfterCapture
    /\ req' = [r \in Reqs |-> Detach(req[r], res)]
    /\ UNCHANGED <<is_replaying, total_replays, failed_replays, lock, sayq>>

RunCapture(h) == CaptureEffect(CaptureBody(asset, h, now + 1))

\* save_last_audio(h) is called: lines 179-183
SaveLastAudio(h) ==
    /\ cap.pc = "idle"
    /\ total_captures + failed_captures < MaxCaptures
    /\ IF h.chat_message = "absent"
       THEN /\ cap' = [pc |-> "idle", handle |-> h]
            /\ UNCHANGED <<asset, is_capturing, is_replaying, counters, lock, waiters, now,
                           req, sayq>>
       ELSE IF lock = NoTask /\ waiters = << >>
            THEN /\ RunCapture(h)
                 /\ cap' = [pc |-> "idle", handle |-> h]
                 /\ UNCHANGED waiters
            ELSE /\ cap' = [pc |-> "waiting", handle |-> h]
                 /\ waiters' = Append(waiters, CapTask)
                 /\ UNCHANGED <<asset, is_capturing, is_replaying, counters, lock, now,
                                req, sayq>>
    /\ UNCHANGED <<server, registry>>

\* the waiting capture is given the lock
CaptureAcquires ==
    /\ cap.pc = "waiting"
    /\ lock = NoTask
    /\ waiters # << >> /\ Head(waiters) = CapTask
    /\ waiters' = Tail(waiters)
    /\ cap' = [cap EXCEPT !.pc = "idle"]
    /\ RunCapture(cap.handle)
    /\ UNCHANGED <<server, registry>>

\* clear_audio (lines 648-657): no lock is taken
ClearAudio ==
    /\ asset' = ClearAsset(asset)
    /\ UNCHANGED <<is_capturing, is_replaying, counters, lock, waiters, now, req, cap, sayq>>
    /\ UNCHANGED <<server, registry>>

(***************************************************************************)
(* handle_rpc_replay, called by the replay_last_audio RPC method.          *)
(***************************************************************************)
\* the checks without the one of line 463
PreconditionWithoutAudioCheck(a, replaying, capturing) ==
    IF replaying THEN "replay_in_progress"
    ELSE IF capturing THEN "capture_in_progress"
         ELSE "ok"

\* the checks without the one of line 487
PreconditionWithoutReplayCheck(a, replaying, capturing) ==
    IF ~IsValid(a) THEN "no_audio"
    ELSE IF capturing THEN "capture_in_progress"
         ELSE "ok"

\* the validations of lines 463-521, in the order of the code
Precondition(a, replaying, capturing) ==
    IF ~IsValid(a) THEN "no_audio"
    ELSE IF replaying THEN "replay_in_progress"
         ELSE IF capturing THEN "capture_in_progress"
              ELSE "ok"

FallbackPcs == {"say_no_audio", "say_replay_in_progress", "say_capture_in_progress"}

\* the status of the response a rejected request has prepared
RejectedStatus(pc) ==
    IF pc = "say_no_audio" THEN "no_audio"
    ELSE IF pc = "say_replay_in_progress" THEN "replay_in_progress"
         ELSE "capture_in_progress"

\* _total_replays after a playback that completed (line 546)
TotalReplaysAfterSuccess(n) == n + 1

\* a failure left out of the count
FailedReplaysNotCounted(n) == n

\* _failed_replays after the except Exception block (line 584)
FailedReplaysAfterError(n) == n + 1

\* a cancellation counted as a failure
FailedReplaysCounted(n) == n + 1

\* _failed_replays after the except CancelledError block (lines 568-578)
FailedReplaysAfterCancel(n) == n

\* _is_replaying after the except CancelledError block (line 570)
ReplayingAfterCancel(b) == FALSE

\* _is_replaying after the except Exception block (line 585)
ReplayingAfterError(b) == FALSE

\* a playback without the cleanup of its finally block
ReplayingKept(b) == b

\* _is_replaying after the finally block of the playback (line 566)
ReplayingAfterPlayback(b) == FALSE

\* lines 461-543 once the lock is owned: a rejected request speaks its
\* fallback message while it holds the lock; an accepted one releases the
\* lock, sets _is_replaying and awaits session.say(audio=replay_iterator())
Validated(r, q, p) ==
    IF p = "ok"
    THEN /\ lock' = NoTask
         /\ is_replaying' = TRUE
         /\ req' = [req EXCEPT ![r] = [q EXCEPT !.pc = "playing", !.it_pc = "created",
                                                !.checked = p,
                                                !.it_checked = asset.buffer]]
         /\ sayq' = Append(sayq, r)
    ELSE /\ lock' = ReqTask(r)
         /\ req' = [req EXCEPT ![r] = [q EXCEPT !.pc = "say_" \o p, !.checked = p]]
         /\ sayq' = Append(sayq, r)
         /\ UNCHANGED is_replaying

Validate(r, q) == Validated(r, q, Precondition(asset, is_replaying, is_capturing))

\* the slot of a new invocation of r
Called(r) ==
    [IdleReq EXCEPT
       !.called_during_playback = \E o \in Reqs \ {r} : req[o].pc = "playing",
       !.total_at_call = total_replays]

\* requests that have not returned
InFlight == {r \in Reqs : req[r].pc \notin {"idle", "done"}}

\* the RPC method is invoked: lines 746-751 and 460-461
HandleRpcReplay(r) ==
    /\ req[r].pc \in {"idle", "done"}
    /\ total_replays + failed_replays + Cardinality(InFlight) < MaxReplays
    /\ IF lock = NoTask /\ waiters = << >>
       THEN Validate(r, Called(r)) /\ UNCHANGED waiters
       ELSE /\ req' = [req EXCEPT ![r] = [Called(r) EXCEPT !.pc = "wait_lock"]]
            /\ waiters' = Append(waiters, ReqTask(r))
            /\ UNCHANGED <<lock, is_replaying, sayq>>
    /\ UNCHANGED <<asset, is_capturing, counters, now, cap>>
    /\ UNCHANGED <<server, registry>>

\* a waiting request is given the lock
ReplayAcquires(r) ==
    /\ req[r].pc = "wait_lock"
    /\ lock = NoTask
    /\ waiters # << >> /\ Head(waiters) = ReqTask(r)
    /\ waiters' = Tail(waiters)
    /\ Validate(r, req[r])
    /\ UNCHANGED <<asset, is_capturing, counters, now, cap>>
    /\ UNCHANGED <<server, registry>>

\* the task is cancelled while it waits for the lock: lines 568-578
CancelledWaiting(r) ==
    /\ req[r].pc = "wait_lock"
    /\ waiters' = Remove(waiters, ReqTask(r))
    /\ is_replaying' = ReplayingAfterCancel(is_replaying)
    /\ failed_replays' = FailedReplaysAfterCancel(failed_replays)
    /\ req' = [req EXCEPT ![r] = Returned(@, Response("cancelled"))]
    /\ UNCHANGED <<asset, is_capturing, total_captures, total_replays, failed_captures,
                   lock, now, cap, sayq>>
    /\ UNCHANGED <<server, registry>>

\* the fallback message has been spoken: the prepared response is returned
FallbackReturns(r) ==
    /\ req[r].pc \in FallbackPcs
    /\ Head(sayq) = r
    /\ sayq' = Tail(sayq)
    /\ lock' = NoTask
    /\ req' = [req EXCEPT ![r] = Returned(@, Response(RejectedStatus(req[r].pc)))]
    /\ UNCHANGED <<asset, is_capturing, is_replaying, counters, waiters, now, cap>>
    /\ UNCHANGED <<server, registry>>

\* session.say of the fallback message raises: the lock is released and the
\* except Exception block (lines 580-600) starts the apology
FallbackRaises(r) ==
    /\ req[r].pc \in FallbackPcs
    /\ lock' = NoTask
    /\ failed_replays' = FailedReplaysAfterError(failed_replays)
    /\ is_replaying' = ReplayingAfterError(is_replaying)
    /\ req' = [req EXCEPT ![r].pc = "say_apology"]
    /\ sayq' = Append(Remove(sayq, r), r)
    /\ UNCHANGED <<asset, is_capturing, total_captures, total_replays, failed_captures,
                   waiters, now, cap>>
    /\ UNCHANGED <<server, registry>>

\* the task is cancelled while the fallback message is awaited (lines 568-578)
FallbackCancelled(r) ==
    /\ req[r].pc \in FallbackPcs
    /\ lock' = NoTask
    /\ is_replaying' = ReplayingAfterCancel(is_replaying)
    /\ failed_replays' = FailedReplaysAfterCancel(failed_replays)
    /\ req' = [req EXCEPT ![r] = Returned(@, Response("cancelled"))]
    /\ sayq' = Remove(sayq, r)
    /\ UNCHANGED <<asset, is_capturing, total_captures, total_replays, failed_captures,
                   waiters, now, cap>>
    /\ UNCHANGED <<server, registry>>

\* the playback say() returns: its audio source is exhausted (lines 545-566)
PlaybackReturns(r) ==
    /\ req[r].pc = "playing"
    /\ Head(sayq) = r
    /\ req[r].it_pc = "done"
    /\ sayq' = Tail(sayq)
    /\ total_replays' = TotalReplaysAfterSuccess(total_replays)
    /\ is_replaying' = ReplayingAfterPlayback(is_replaying)
    /\ req' = [req EXCEPT ![r] = Returned(CloseIter(@), SuccessResponse(asset))]
    /\ UNCHANGED <<asset, is_capturing, total_captures, failed_captures, failed_replays,
                   lock, waiters, now, cap>>
    /\ UNCHANGED <<server, registry>>

\* the playback say() raises: finally, then the except Exception block
PlaybackRaises(r) ==
    /\ req[r].pc = "playing"
    /\ failed_replays' = FailedReplaysAfterError(failed_replays)
    /\ is_replaying' = ReplayingAfterError(ReplayingAfterPlayback(is_replaying))
    /\ req' = [req EXCEPT ![r] = [CloseIter(@) EXCEPT !.pc = "say_apology"]]
    /\ waiters' = Remove(waiters, IterTask(r))
    /\ sayq' = Append(Remove(sayq, r), r)
    /\ UNCHANGED <<asset, is_capturing, total_captures, total_replays, failed_captures,
                   lock, now, cap>>
    /\ UNCHANGED <<server, registry>>

\* the task is cancelled while it awaits the playback (lines 564-578)
PlaybackCancelled(r) ==
    /\ req[r].pc = "playing"
    /\ is_replaying' = ReplayingAfterCancel(ReplayingAfterPlayback(is_replaying))
    /\ failed_replays' = FailedReplaysAfterCancel(failed_replays)
    /\ req' = [req EXCEPT ![r] = Returned(CloseIter(@), Response("cancelled"))]
    /\ waiters' = Remove(waiters, IterTask(r))
    /\ sayq' = Remove(sayq, r)
    /\ UNCHANGED <<asset, is_capturing, total_captures, total_replays, failed_captures,
                   lock, now, cap>>
    /\ UNCHANGED <<server, registry>>

\* the apology has been spoken (lines 595-604)
ApologyReturns(r) ==
    /\ req[r].pc = "say_apology"
    /\ Head(sayq) = r
    /\ sayq' = Tail(sayq)
    /\ req' = [req EXCEPT ![r] = [Returned(@, Response("error")) EXCEPT
                                     !.apology = "spoken"]]
    /\ UNCHANGED <<asset, is_capturing, is_replaying, counters, lock, waiters, now, cap>>
    /\ UNCHANGED <<server, registry>>

\* session.say of the apology raises: the error is logged (lines 601-604)
ApologyRaises(r) ==
    /\ req[r].pc = "say_apology"
    /\ sayq' = Remove(sayq, r)
    /\ req' = [req EXCEPT ![r] = [Returned(@, Response("error")) EXCEPT
                                     !.apology = "raised"]]
    /\ UNCHANGED <<asset, is_capturing, is_replaying, counters, lock, waiters, now, cap>>
    /\ UNCHANGED <<server, registry>>

\* the response of an invocation cancelled while the apology is awaited:
\* the except Exception clauses of lines 601 and 757 do not catch CancelledError
ResponseAfterApologyCancelled == Propagated

ApologyCancelled(r) ==
    /\ req[r].pc = "say_apology"
    /\ sayq' = Remove(sayq, r)
    /\ req' = [req EXCEPT ![r] = Returned(@, ResponseAfterApologyCancelled)]
    /\ UNCHANGED <<asset, is_capturing, is_replaying, counters, lock, waiters, now, cap>>
    /\ UNCHANGED <<server, registry>>

(***************************************************************************)
(* replay_iterator, consumed by the session while it plays the replay.     *)
(* it_alias: the local variable buffer is the asset's bytearray object;    *)
(* it_buf: the contents of that object once the asset holds another one.   *)
(* it_snap (the bytes at snapshot time), it_sent (the bytes yielded) and   *)
(* it_frames (the frames yielded) record what the pass did; it_checked is  *)
(* the buffer that passed the check of line 463 and it_meta the metadata   *)
(* of the asset at snapshot time.                                          *)
(***************************************************************************)
\* chunk_size of lines 395-398
ChunkSize(rate, ch) == ((rate * ChunkDurationMs) \div 1000) * BytesPerSample * ch

Min(a, b) == IF a < b THEN a ELSE b

\* lines 384-391 once the lock is owned; the lock is released at once
Snapshot(r) ==
    req' = [req EXCEPT ![r] =
              IF ~IsValid(asset)
              THEN [@ EXCEPT !.it_pc = "done"]
              ELSE [@ EXCEPT !.it_pc = "streaming", !.it_alias = TRUE,
                             !.it_rate = asset.sample_rate, !.it_ch = asset.channels,
                             !.it_snap = asset.buffer,
                             !.it_meta = SuccessResponse(asset)]]

\* the session asks for the first frame
IterStarts(r) ==
    /\ req[r].pc = "playing" /\ req[r].it_pc = "created"
    /\ Head(sayq) = r
    /\ IF lock = NoTask /\ waiters = << >>
       THEN Snapshot(r) /\ UNCHANGED waiters
       ELSE /\ req' = [req EXCEPT ![r].it_pc = "waiting"]
            /\ waiters' = Append(waiters, IterTask(r))
    /\ UNCHANGED <<asset, is_capturing, is_replaying, counters, lock, now, cap, sayq>>
    /\ UNCHANGED <<server, registry>>

\* the waiting iterator is given the lock
IterAcquires(r) ==
    /\ req[r].it_pc = "waiting"
    /\ lock = NoTask
    /\ waiters # << >> /\ Head(waiters) = IterTask(r)
    /\ waiters' = Tail(waiters)
    /\ Snapshot(r)
    /\ UNCHANGED <<asset, is_capturing, is_replaying, counters, lock, now, cap, sayq>>
    /\ UNCHANGED <<server, registry>>

\* the bytes the iterator's buffer variable refers to
IterBuffer(q) == IF q.it_alias THEN asset.buffer ELSE q.it_buf

\* one turn of the loop of lines 411-440: the next frame, or the end
\* the iterator q after the frame b[it_off .. chunk_end) or, when there is
\* none, after the loop has ended
Advance(q, b, chunk_end) ==
    IF q.it_off < Len(b) /\ chunk_end > q.it_off
    THEN [q EXCEPT !.it_off = chunk_end,
                   !.it_sent = @ \o SubSeq(b, q.it_off + 1, chunk_end),
                   !.it_frames = @ + 1]
    ELSE [q EXCEPT !.it_pc = "done"]

\* lines 411-413 on buffer b
NextFrame(q, b) == Advance(q, b, Min(q.it_off + ChunkSize(q.it_rate, q.it_ch), Len(b)))

\* a chunk that is moved out of the asset
AssetWithoutBuffer(a) == [a EXCEPT !.buffer = << >>]

\* line 414: bytes(buffer[offset:chunk_end]) copies the chunk, the asset
\* keeps it
AssetAfterChunk(a) == a

IterNext(r) ==
    /\ req[r].it_pc = "streaming"
    /\ Head(sayq) = r
    /\ req' = [req EXCEPT ![r] = NextFrame(req[r], IterBuffer(req[r]))]
    /\ asset' = AssetAfterChunk(asset)
    /\ UNCHANGED <<is_capturing, is_replaying, counters, lock, waiters, now,
                   cap, sayq>>
    /\ UNCHANGED <<server, registry>>

(***************************************************************************)
(* Specifications.                                                         *)
(***************************************************************************)
Next ==
    \/ \E h \in Handles : SaveLastAudio(h)
    \/ CaptureAcquires
    \/ ClearAudio
    \/ \E r \in Reqs :
          \/ HandleRpcReplay(r)
          \/ ReplayAcquires(r)
          \/ CancelledWaiting(r)
          \/ FallbackReturns(r)
          \/ FallbackRaises(r)
          \/ FallbackCancelled(r)
          \/ PlaybackReturns(r)
          \/ PlaybackRaises(r)
          \/ PlaybackCancelled(r)
          \/ ApologyReturns(r)
          \/ ApologyRaises(r)
          \/ ApologyCancelled(r)
          \/ IterStarts(r)
          \/ IterAcquires(r)
          \/ IterNext(r)

\* captures, replay requests and clear_audio calls in any interleaving
Spec == Init /\ [][Next]_vars

NextCapture ==
    \/ \E h \in AllHandles : SaveLastAudio(h)
    \/ ClearAudio

\* captures and clear_audio calls alone, over every kind of handle
SpecCapture == Init /\ [][NextCapture]_vars

\* the handles of the specification of single passes
PassHandles == {HandleTextOnly, HandleMono, HandleStereo, HandleLong, HandleLowRate}

NextPass ==
    \/ \E h \in PassHandles : InFlight = {} /\ SaveLastAudio(h)
    \/ HandleRpcReplay(1)
    \/ FallbackReturns(1)
    \/ IterStarts(1)
    \/ IterNext(1)
    \/ PlaybackReturns(1)

\* one replay request at a time, each consumed to its end with no capture
\* and no clear_audio call while it is in flight
SpecPass == Init /\ [][NextPass]_vars

(***************************************************************************)
(* The token server's endpoints.                                           *)
(***************************************************************************)
\* the JSON body of a revokeToken response
RevokeResponse(success) == [status |-> 200, success |-> success]

\* POST /getToken with JSON body data (lines 282-364); without a body the
\* abort of line 311 is caught by the except Exception clause of line 361
GetToken(data) ==
    /\ http_request' = [endpoint |-> "getToken", data |-> data, at |-> clock]
    /\ IF data = NoData
       THEN /\ http_response' = PlainResponse(500)
            /\ UNCHANGED active_sessions
       ELSE /\ active_sessions' =
                  GetTokenFor(active_sessions, ValidateRequestData(data), clock).sessions
            /\ http_response' =
                  GetTokenFor(active_sessions, ValidateRequestData(data), clock).response
    /\ UNCHANGED clock
    /\ UNCHANGED <<replay, registry>>

\* POST /revokeToken for user_id (lines 367-391); "" is a body without user_id
RevokeToken(user_id) ==
    /\ http_request' = [endpoint |-> "revokeToken",
                        data |-> [NoData EXCEPT !.user_id = user_id], at |-> clock]
    /\ IF user_id # "" /\ user_id \in DOMAIN active_sessions
       THEN /\ active_sessions' = Delete(active_sessions, user_id)
            /\ http_response' = RevokeResponse(TRUE)
       ELSE /\ http_response' = RevokeResponse(FALSE)
            /\ UNCHANGED active_sessions
    /\ UNCHANGED clock
    /\ UNCHANGED <<replay, registry>>

\* time passes between two requests
Tick(d) ==
    /\ clock + d <= MaxClock
    /\ clock' = clock + d
    /\ UNCHANGED <<active_sessions, http_request, http_response>>
    /\ UNCHANGED <<replay, registry>>

UserIds == {"ana", "luis"}

NextToken ==
    \/ \E data \in TokenRequests \cup {NoData} : GetToken(data)
    \/ \E user_id \in UserIds \cup {""} : RevokeToken(user_id)
    \/ \E d \in Pauses : Tick(d)

\* getToken and revokeToken requests, one at a time, as time passes
SpecToken == Init /\ [][NextToken]_vars

\* the speeches captured while requests are watched to their end
LiveHandles == {HandleMono}

NextLive ==
    \/ \E h \in LiveHandles : SaveLastAudio(h)
    \/ CaptureAcquires
    \/ \E r \in Reqs :
          \/ HandleRpcReplay(r)
          \/ ReplayAcquires(r)
          \/ CancelledWaiting(r)
          \/ FallbackReturns(r)
          \/ FallbackRaises(r)
          \/ FallbackCancelled(r)
          \/ PlaybackReturns(r)
          \/ PlaybackRaises(r)
          \/ PlaybackCancelled(r)
          \/ ApologyReturns(r)
          \/ ApologyRaises(r)
          \/ ApologyCancelled(r)
          \/ IterStarts(r)
          \/ IterAcquires(r)
          \/ IterNext(r)

\* the steps of request r that the event loop and the session take by
\* themselves: the loop resumes a task that can take the lock, the session
\* asks the iterator of the say call at the head of its queue for its frames
\* and ends a say call whose audio is exhausted
Proceeds(r) ==
    \/ ReplayAcquires(r)
    \/ IterStarts(r)
    \/ IterAcquires(r)
    \/ IterNext(r)
    \/ FallbackReturns(r)
    \/ PlaybackReturns(r)
    \/ ApologyReturns(r)

\* the loop resumes the capture task that can take the lock: the steps of
\* CaptureAcquires, told by what they do to cap
CaptureResumes ==
    /\ cap.pc = "waiting"
    /\ lock = NoTask
    /\ waiters # << >> /\ Head(waiters) = CapTask
    /\ cap' = [cap EXCEPT !.pc = "idle"]

\* the loop and the session go on; nothing obliges a say call to raise or a
\* task to be cancelled
Scheduling ==
    /\ WF_cap(CaptureResumes)
    /\ \A r \in Reqs : WF_vars(Proceeds(r))

\* captures and replay requests under a loop and a session that go on
SpecLive == Init /\ [][NextLive]_vars /\ Scheduling

(***************************************************************************)
(* get_audio_replay_service (lines 664-689).  A call is split at its       *)
(* awaits: the first test of line 682, the entry into _service_lock of     *)
(* line 683, and the body of lines 685-689, which has no await.  One event *)
(* loop never suspends a caller at a free lock; the steps are kept apart   *)
(* so that every order in which callers may be resumed is covered.         *)
(***************************************************************************)

\* the second test is left out
ServiceWithoutSecondTest(service, n) == n + 1

\* lines 685-686: under the lock the variable is tested again and an instance
\* is constructed only if it is still None
ServiceUnderLock(service, n) == IF service = NoService THEN n + 1 ELSE service

\* line 689: the call returns the module variable
ReturnService(c, service) ==
    [callers EXCEPT ![c] = [pc |-> "idle", calls |-> @.calls + 1,
                            returned |-> service]]

\* line 682 with the variable set, then line 689
GetAudioReplayService(c) ==
    /\ callers[c].pc = "idle"
    /\ callers[c].calls < MaxCalls
    /\ IF audio_replay_service # NoService
          THEN callers' = ReturnService(c, audio_replay_service)
          ELSE callers' = [callers EXCEPT ![c].pc = "waiting"]
    /\ UNCHANGED <<audio_replay_service, service_lock, instances>>
    /\ UNCHANGED <<replay, server>>

\* line 683: async with _service_lock
ServiceLockAcquires(c) ==
    /\ callers[c].pc = "waiting"
    /\ service_lock = NoCaller
    /\ service_lock' = c
    /\ callers' = [callers EXCEPT ![c].pc = "locked"]
    /\ UNCHANGED <<audio_replay_service, instances>>
    /\ UNCHANGED <<replay, server>>

\* lines 685-689: the second test, the construction, the release of the lock
\* and the return
ServiceLockReleases(c) ==
    /\ callers[c].pc = "locked"
    /\ audio_replay_service' = ServiceUnderLock(audio_replay_service, instances)
    /\ instances' = IF audio_replay_service' # audio_replay_service
                       THEN instances + 1 ELSE instances
    /\ service_lock' = NoCaller
    /\ callers' = ReturnService(c, audio_replay_service')
    /\ UNCHANGED <<replay, server>>

NextService ==
    \/ \E c \in Callers : GetAudioReplayService(c)
    \/ \E c \in Callers : ServiceLockAcquires(c)
    \/ \E c \in Callers : ServiceLockReleases(c)

\* callers of get_audio_replay_service, one after another and at once
SpecService == Init /\ [][NextService]_vars

-----------------------------------------------------------------------------
\* Properties of handle_rpc_replay

\* the step in which invocation r evaluates the checks of lines 463-521
Evaluates(r) ==
    /\ req[r].pc \in {"idle", "done", "wait_lock"}
    /\ req'[r].pc \in FallbackPcs \cup {"playing"}

\* the step in which invocation r returns
Returns(r) == req[r].pc \notin {"idle", "done"} /\ req'[r].pc = "done"

\* the step in which invocation r returns from the state pc
ReturnsFrom(r, pc) == req[r].pc = pc /\ req'[r].pc = "done"

\* the responses an invocation returns when none of its say calls failed
\* or was cancelled
UndisturbedStatuses ==
    {"success", "no_audio", "replay_in_progress", "capture_in_progress"}

C2_EveryInvocationReturnsResponse ==
    \A r \in Reqs :
        req[r].pc = "done" =>
            req[r].result.status \in UndisturbedStatuses \cup {"cancelled", "error"}

C6_SuccessCountsOnce ==
    [][\A r \in Reqs :
          (ReturnsFrom(r, "playing") /\ req'[r].result.status = "success")
            => /\ req'[r].result.success = TRUE
               /\ total_replays' = req[r].total_at_call + 1
               /\ failed_replays' = failed_replays
               /\ is_replaying' = FALSE]_vars

\* C7: when the task of an invocation is cancelled while it awaits the
\* playback, the invocation returns status cancelled with success false,
\* total_replays and failed_replays keep their values, and is_replaying is
\* false afterwards.
C7_CancelledPlayback ==
    [][\A r \in Reqs :
          (ReturnsFrom(r, "playing") /\ req'[r].result.status # "success")
            => /\ req'[r].result.status = "cancelled"
               /\ req'[r].result.success = FALSE
               /\ total_replays' = total_replays
               /\ failed_replays' = failed_replays
               /\ is_replaying' = FALSE]_vars

\* an invocation cancelled during its playback has returned, nothing counted
C7_Witness ==
    \E r \in Reqs :
        /\ req[r].pc = "done"
        /\ req[r].checked = "ok"
        /\ req[r].result.status = "cancelled"
        /\ total_replays = 0
        /\ failed_replays = 0
        /\ ~is_replaying

\* C8: when the playback say of an invocation raises an exception other than
\* a cancellation, failed_replays grows by exactly one and total_replays keeps
\* its value, and the invocation returns status error with success false
\* whether its apology say returns or raises, without counting anything more.
C8_FailedPlayback ==
    [][\A r \in Reqs :
          /\ (req[r].pc = "playing" /\ req'[r].pc = "say_apology")
                => /\ failed_replays' = failed_replays + 1
                   /\ total_replays' = total_replays
          /\ (ReturnsFrom(r, "say_apology") /\ req[r].checked = "ok"
               /\ req'[r].apology \in {"spoken", "raised"})
                => /\ req'[r].result.status = "error"
                   /\ req'[r].result.success = FALSE
                   /\ total_replays' = total_replays
                   /\ failed_replays' = failed_replays]_vars

\* an invocation whose playback raised, and whose apology raised too, has
\* returned error with one failure counted
C8_Witness ==
    \E r \in Reqs :
        /\ req[r].pc = "done"
        /\ req[r].checked = "ok"
        /\ req[r].apology = "raised"
        /\ req[r].result.status = "error"
        /\ failed_replays = 1
        /\ total_replays = 0

-----------------------------------------------------------------------------
\* Properties of save_last_audio

\* the step in which the body of save_last_audio runs on the handle cap'.handle
CaptureRuns == now' = now + 1

\* the step in which save_last_audio is called with a handle that has no
\* chat_message attribute and returns
CaptureSkipped == cap'.handle.chat_message = "absent" /\ cap' # cap

\* the step in which a capture of a handle with content runs to its end
CaptureCompletes ==
    CaptureRuns /\ HasContent(cap'.handle) /\ asset'.created_at = now'

\* h carries no audio content and no text content
NoAudioNoText(h) ==
    \/ h.chat_message # "present"
    \/ AudioItems(h.content) = << >> /\ TextItems(h.content) = << >>

RECURSIVE DataLength(_, _)
\* the sum of the lengths of the data of frames i.. of a sequence of frames
DataLength(frames, i) ==
    IF i > Len(frames) THEN 0 ELSE Len(frames[i].data) + DataLength(frames, i + 1)

\* the length of the concatenated frame data of the audio content of h
CapturedLength(h) ==
    IF AudioItems(h.content) = << >> THEN 0
    ELSE DataLength(AudioItems(h.content)[1].frame, 1)

\* duration_seconds * sample_rate * channels * 2 = len(buffer), to less than
\* the bytes of one sample of every channel
DurationMatchesBuffer(a, product, length) ==
    /\ product - length < BytesPerSample * a.channels * a.dur_den
    /\ length - product < BytesPerSample * a.channels * a.dur_den

\* C5: save_last_audio called with a handle that carries no audio content and
\* no text content leaves every field of the current asset and the four
\* counters unchanged.
C5_NoContentNoEffect ==
    [][((CaptureRuns \/ CaptureSkipped) /\ NoAudioNoText(cap'.handle))
          => (asset' = asset /\ UNCHANGED counters)]_vars

\* C9: after every capture of a handle with content that runs to its end, the
\* stored buffer holds the concatenated frame data cut to the configured
\* maximum: exactly the maximum when the data exceed it, all the data
\* otherwise.
C9_BufferBounded ==
    [][CaptureCompletes
          => Len(asset'.buffer) = Min(CapturedLength(cap'.handle), MaxBufferBytes)]_vars

\* a capture of more data than the maximum has stored exactly the maximum
C9_Witness ==
    /\ cap.handle = HandleLong
    /\ asset.created_at = now
    /\ CapturedLength(cap.handle) > MaxBufferBytes
    /\ Len(asset.buffer) = MaxBufferBytes

\* C10: after every capture that runs to its end and stored audio, for every
\* channel count, duration_seconds * sample_rate * channels * 2 equals
\* len(buffer) up to integer division.
C10_DurationFromBuffer ==
    [][(CaptureCompletes /\ asset'.buffer # << >>)
          => DurationMatchesBuffer(asset',
                 asset'.dur_num * asset'.sample_rate * asset'.channels * BytesPerSample,
                 Len(asset'.buffer) * asset'.dur_den)]_vars

-----------------------------------------------------------------------------
\* Properties of replay_iterator

\* n = ceil(length / chunk)
IsCeilDiv(n, length, chunk) == n * chunk >= length /\ (n - 1) * chunk < length

\* C11: a replay_iterator pass consumed to its end over a valid asset yields
\* the bytes of the buffer in order, all of them, in ceil(L / C) frames, where
\* L is the length of the buffer and C the chunk size.
C11_PassYieldsWholeBuffer ==
    \A r \in Reqs :
        (req[r].pc = "playing" /\ req[r].it_pc = "done" /\ IsValid(asset))
          => /\ req[r].it_sent = asset.buffer
             /\ IsCeilDiv(req[r].it_frames, Len(asset.buffer),
                          ChunkSize(asset.sample_rate, asset.channels))

\* C11 where the chunk size is positive
C11_PassYieldsWholeBufferPositiveChunk ==
    \A r \in Reqs :
        (req[r].pc = "playing" /\ req[r].it_pc = "done" /\ IsValid(asset)
         /\ ChunkSize(asset.sample_rate, asset.channels) > 0)
          => /\ req[r].it_sent = asset.buffer
             /\ IsCeilDiv(req[r].it_frames, Len(asset.buffer),
                          ChunkSize(asset.sample_rate, asset.channels))

-----------------------------------------------------------------------------
\* Properties of the asset

\* C12: in every reachable state the current asset is valid if and only if
\* frame_count > 0, clean_text is non-empty and duration_seconds > 0.1: the
\* test of the buffer in is_valid never changes the answer.
C12_ValidWithoutBufferTest ==
    IsValid(asset) <=>
        (asset.frame_count > 0 /\ asset.clean_text # << >> /\ DurationOverMinimum(asset))

\* a capture has stored a valid asset
C12_Witness ==
    /\ total_captures > 0
    /\ IsValid(asset)
    /\ asset.frame_count > 0 /\ asset.clean_text # << >> /\ DurationOverMinimum(asset)

-----------------------------------------------------------------------------
\* Properties of the replay flag

\* the invocations between line 532 and their cleanup
Playing == {r \in Reqs : req[r].pc = "playing"}

\* C13: at any instant at most one handle_rpc_replay invocation is in its
\* playback phase, whatever happened to other replay requests before.
C13_OnePlaybackAtATime == Cardinality(Playing) <= 1

-----------------------------------------------------------------------------
\* Properties of a replay_iterator pass

IsPrefix(s, t) == Len(s) <= Len(t) /\ s = SubSeq(t, 1, Len(s))

\* C14: once a pass has taken its snapshot under the lock, the frames it
\* yields are the bytes the buffer held at snapshot time, in order (a prefix
\* of them while it streams, all of them when it ends), even if a capture or
\* clear_audio runs between two frames.
C14_PassYieldsSnapshot ==
    \A r \in Reqs :
        /\ req[r].it_pc = "streaming" => IsPrefix(req[r].it_sent, req[r].it_snap)
        /\ (req[r].it_pc = "done" /\ req[r].it_snap # << >>)
             => req[r].it_sent = req[r].it_snap

-----------------------------------------------------------------------------
\* Properties of a capture's cleanup

\* a capture that yields a valid asset, one that yields an invalid asset and
\* one that raises
RecoverHandles == {HandleMono, HandleTextOnly, HandleBadFrame}

NextRecover ==
    \/ \E h \in RecoverHandles : SaveLastAudio(h)
    \/ CaptureAcquires
    \/ \E r \in Reqs :
          \/ HandleRpcReplay(r)
          \/ ReplayAcquires(r)
          \/ CancelledWaiting(r)
          \/ FallbackReturns(r)
          \/ FallbackRaises(r)
          \/ FallbackCancelled(r)
          \/ PlaybackReturns(r)
          \/ PlaybackRaises(r)
          \/ PlaybackCancelled(r)
          \/ ApologyReturns(r)
          \/ ApologyRaises(r)
          \/ ApologyCancelled(r)
          \/ IterStarts(r)
          \/ IterAcquires(r)
          \/ IterNext(r)

\* captures of the three kinds and replay requests in any interleaving
SpecRecover == Init /\ [][NextRecover]_vars

\* C15: every capture that acquires the lock releases it with is_capturing
\* false, whether it yields a valid asset, an invalid asset or raises: no
\* state between two steps of the event loop has the flag set or the lock
\* owned by a capture, and no replay request is answered capture_in_progress.
C15_CaptureAlwaysCleansUp ==
    /\ ~is_capturing
    /\ lock # CapTask
    /\ \A r \in Reqs : /\ req[r].checked # "capture_in_progress"
                       /\ req[r].result.status # "capture_in_progress"

\* a capture raised, and the replay request made after it owns the lock and
\* is answered no_audio
C15_Witness ==
    /\ cap = [pc |-> "idle", handle |-> HandleBadFrame]
    /\ failed_captures > 0
    /\ \E r \in Reqs : /\ req[r].pc = "say_no_audio"
                       /\ lock = ReqTask(r)

-----------------------------------------------------------------------------
\* Properties of the text cleaning

\* tokens a spoken text is made of in one behaviour
MaxTokens == 3

TokenStamp == <<"3", ":", "5", "7", " ", "p", ".", " ", "m", ".">>

TokenHour == <<"3", ":">>

TokenMinutes == <<"5", "7", " ", "p", ".", " ", "m", ".">>

Tokens == {TextHola, <<" ">>, TokenStamp, TokenHour, TokenMinutes}

RECURSIVE Concat(_, _)
Concat(ts, i) == IF i > Len(ts) THEN << >> ELSE ts[i] \o Concat(ts, i + 1)

\* the texts of one to MaxTokens tokens
Texts == {Concat(ts, 1) : ts \in UNION {[1..n -> Tokens] : n \in 1..MaxTokens}}

\* a speech with valid audio whose text is t
HandleText(t) == Handle(<<AudioItem(<<Frame(1, 3, 50, 1), Frame(7, 3, 50, 1)>>),
                          TextItem(t)>>)

TextHandles == {HandleText(t) : t \in Texts}

NextText == \E h \in TextHandles : SaveLastAudio(h)

\* captures of speeches with any of the texts
SpecText == Init /\ [][NextText]_vars

\* the text has a clock-time pattern somewhere
HasTimestamp(t) == \E i \in 1..Len(t) : MatchTimestamp(t, i) # 0

\* C16: the cleaned text of a capture is "Hola" for the raw text
\* "Hola 3:57 p. m.", is the raw text with its whitespace normalised when the
\* raw text has no timestamp, and is itself unchanged by cleaning it again.
C16_CleaningIsStable ==
    /\ asset.text_content = TextHolaStamp => asset.clean_text = TextHola
    /\ ~HasTimestamp(asset.text_content)
         => asset.clean_text = Strip(SplitJoin(asset.text_content, 1))
    /\ CleanTextContent(asset.clean_text) = asset.clean_text

\* the same without the second cleaning
C16_CleaningOnce ==
    /\ asset.text_content = TextHolaStamp => asset.clean_text = TextHola
    /\ ~HasTimestamp(asset.text_content)
         => asset.clean_text = Strip(SplitJoin(asset.text_content, 1))

-----------------------------------------------------------------------------
\* Properties of the token server

\* the request that a getToken step serves, validated
Served == ValidateRequestData(http_request'.data)

\* the step serves a getToken request that names a user
ServesGetToken ==
    /\ http_request'.endpoint = "getToken"
    /\ http_request'.data # NoData
    /\ clock' = clock

\* the user of request q has a stored session with the same room, io_mode
\* and persona_id, created less than 480 seconds ago
HasFreshSession(q) ==
    /\ q.user_id \in DOMAIN active_sessions
    /\ active_sessions[q.user_id].room = q.room
    /\ active_sessions[q.user_id].metadata.io_mode = q.io_mode
    /\ active_sessions[q.user_id].metadata.persona_id = q.persona_id
    /\ clock - active_sessions[q.user_id].created_at < 480

\* the stored token is returned and active_sessions is unchanged
ReturnsStored(q) ==
    /\ http_response'.status = 200
    /\ http_response'.token = active_sessions[q.user_id].token
    /\ active_sessions' = active_sessions

\* a token made now is returned and is the user's only stored session; the
\* sessions of the other users are unchanged
ReturnsNew(q) ==
    /\ http_response'.status = 200
    /\ http_response'.token.issued_at = clock
    /\ DOMAIN active_sessions' = DOMAIN active_sessions \cup {q.user_id}
    /\ active_sessions'[q.user_id].token = http_response'.token
    /\ active_sessions'[q.user_id].created_at = clock
    /\ active_sessions'[q.user_id].room = q.room
    /\ active_sessions'[q.user_id].metadata = CreateMetadata(q.io_mode, q.persona_id)
    /\ \A u \in DOMAIN active_sessions \ {q.user_id} :
           active_sessions'[u] = active_sessions[u]

\* C17: a getToken request for a user with a stored session of the same
\* room, io_mode and persona_id created less than 480 seconds earlier returns
\* the stored token and leaves active_sessions unchanged; in every other case
\* a new token is created and replaces the user's stored session
\* (active_sessions, a dictionary keyed by user_id, holds one session per
\* user at most).
C17_ReuseOrReplace ==
    [][ServesGetToken =>
          IF HasFreshSession(Served) THEN ReturnsStored(Served) ELSE ReturnsNew(Served)]_vars

\* a token stored 479 seconds before the request has been returned again
C17_Witness ==
    /\ http_request.endpoint = "getToken"
    /\ http_response.status = 200
    /\ http_request.at - http_response.token.issued_at = 479
    /\ \E u \in DOMAIN active_sessions :
           active_sessions[u].token = http_response.token

-----------------------------------------------------------------------------
\* Properties of the capture counters

\* C18: each capture of a handle with content changes exactly one of
\* total_captures and failed_captures, by exactly 1: total_captures when the
\* resulting asset is valid, failed_captures when it is invalid or the capture
\* raised; it changes neither total_replays nor failed_replays.
C18_OneCaptureCounter ==
    [][(CaptureRuns /\ HasContent(cap'.handle))
          => /\ IF IsValid(asset')
                THEN /\ total_captures' = total_captures + 1
                     /\ failed_captures' = failed_captures
                ELSE /\ failed_captures' = failed_captures + 1
                     /\ total_captures' = total_captures
             /\ total_replays' = total_replays
             /\ failed_replays' = failed_replays]_vars

\* a capture that yielded a valid asset was counted, then one that raised
C18_Witness ==
    /\ cap = [pc |-> "idle", handle |-> HandleBadText]
    /\ total_captures = 1
    /\ failed_captures = 1
    /\ ~IsValid(asset)

\* C19: is_replaying is never left stuck: in every state in which no
\* invocation is between setting is_replaying (line 532) and its cleanup,
\* is_replaying is false, whether earlier replay requests succeeded, were
\* cancelled or raised.
C19_ReplayingNeverStuck == Playing = {} => ~is_replaying

\* a playback has succeeded, one has raised or was cancelled, and nobody is
\* playing
C19_Witness ==
    /\ Playing = {}
    /\ ~is_replaying
    /\ \E r \in Reqs : req[r].result.status = "success"
    /\ \E r \in Reqs : req[r].result.status \in {"error", "cancelled"}
                       /\ req[r].checked = "ok"

-----------------------------------------------------------------------------
\* Properties of the lock

\* the step writes a field of the asset, a flag or a counter
WritesState ==
    \/ asset' # asset
    \/ is_capturing' # is_capturing
    \/ is_replaying' # is_replaying
    \/ counters' # counters

\* the step is taken by a task that owns the lock: a capture, which runs
\* inside its async with block, or an invocation that owns the lock when it
\* takes the step
TakenUnderLock ==
    \/ CaptureRuns
    \/ \E r \in Reqs : req'[r] # req[r] /\ lock = ReqTask(r)

\* C20: every write to the asset, to is_capturing, to is_replaying or to one
\* of the four counters is performed by a task that holds the lock at that
\* moment, in save_last_audio, handle_rpc_replay and clear_audio.
C20_WritesUnderLock == [][WritesState => TakenUnderLock]_vars

-----------------------------------------------------------------------------
\* Properties of the order of the checks

\* the outcome of the checks taken in the order no valid asset, replay in
\* progress, capture in progress
FirstFailing ==
    IF ~IsValid(asset) THEN "no_audio"
    ELSE IF is_replaying THEN "replay_in_progress"
         ELSE IF is_capturing THEN "capture_in_progress"
              ELSE "ok"

\* the checks are evaluated in that order and the first that fails decides
ChecksInOrder(r) ==
    /\ Evaluates(r) => req'[r].checked = FirstFailing
    /\ (ReturnsFrom(r, "say_no_audio") \/ ReturnsFrom(r, "say_replay_in_progress")
          \/ ReturnsFrom(r, "say_capture_in_progress"))
         => req'[r].result.status \in {req[r].checked, "cancelled"}

\* C21: the checks are evaluated in the order no valid asset, replay in
\* progress, capture in progress, and the first that fails decides the
\* result (no_audio when a replay is in flight and the asset is not valid);
\* each request returns one status among success, no_audio,
\* replay_in_progress, capture_in_progress, cancelled and error.
C21_OrderedChecksOneStatus ==
    [][\A r \in Reqs :
          /\ ChecksInOrder(r)
          /\ Returns(r) => req'[r].result.status \in
                             {"success", "no_audio", "replay_in_progress",
                              "capture_in_progress", "cancelled", "error"}]_vars

\* the order of the checks alone
C21_OrderedChecks == [][\A r \in Reqs : ChecksInOrder(r)]_vars

-----------------------------------------------------------------------------
\* Properties of captures during a replay

\* the invocations whose iterator has taken its snapshot and is streaming
Streaming == {r \in Reqs : req[r].pc = "playing" /\ req[r].it_pc = "streaming"}

\* the step in which save_last_audio is called with a handle that has a
\* chat_message attribute: it runs at once or has to wait for the lock
CaptureIssued == cap.pc = "idle" /\ (CaptureRuns \/ cap'.pc = "waiting")

\* C22: a replay holds the lock during its checks and the iterator's
\* snapshot only, so a capture issued while a replay is streaming acquires
\* the lock and completes without waiting for the replay to finish, while
\* is_replaying keeps its value and the replay goes on.
C22_CaptureNeverWaitsForReplay ==
    [][(CaptureIssued /\ Streaming # {})
          => /\ CaptureRuns
             /\ is_replaying' = is_replaying
             /\ \A r \in Streaming : req'[r].pc = "playing"]_vars

\* an invocation in its playback phase does not own the lock
C22_PlaybackOwnsNoLock ==
    \A r \in Reqs : req[r].pc = "playing" => lock \notin {ReqTask(r), IterTask(r)}

-----------------------------------------------------------------------------
\* Properties of the stored metadata

\* the frames with data of the audio content that a capture of h reads
CapturedFrames(h) ==
    IF AudioItems(h.content) = << >> THEN << >>
    ELSE SelectSeq(AudioItems(h.content)[1].frame, LAMBDA f : Len(f.data) > 0)

\* the positive sample rates and channel counts the frames carry
FrameRates(fs) == {fs[i].sample_rate : i \in {j \in 1..Len(fs) : fs[j].sample_rate > 0}}

FrameChannels(fs) ==
    {fs[i].num_channels : i \in {j \in 1..Len(fs) : fs[j].num_channels > 0}}

\* the asset a holds the metadata of the frames fs, or the defaults when the
\* frames carry none
MetadataOfFrames(a, fs) ==
    /\ IF FrameRates(fs) = {} THEN a.sample_rate = DefaultSampleRate
       ELSE a.sample_rate \in FrameRates(fs)
    /\ IF FrameChannels(fs) = {} THEN a.channels = DefaultChannels
       ELSE a.channels \in FrameChannels(fs)

\* C23: after a capture whose frames carry no positive sample rate or channel
\* count, the stored sample_rate and channels are the defaults (16000 Hz, 1
\* channel), whatever asset was stored before; when the frames carry them,
\* the stored values are those of the frames.
C23_MetadataFromFramesOrDefaults ==
    [][(CaptureCompletes /\ CapturedFrames(cap'.handle) # << >>)
          => MetadataOfFrames(asset', CapturedFrames(cap'.handle))]_vars

-----------------------------------------------------------------------------
\* Properties of what a replay leaves alone

\* a step of a replay request or of its iterator
ReplayStep == req' # req /\ ~CaptureRuns

-----------------------------------------------------------------------------
\* Properties of the errors of a capture

\* reading the audio or the text content of h raises
ReadingRaises(h) ==
    /\ HasContent(h)
    /\ \/ \E i \in 1..Len(CapturedFrames(h)) : CapturedFrames(h)[i].bad
       \/ \E i \in 1..Len(TextItems(h.content)) : TextItems(h.content)[i].bad

\* C25: for every handle save_last_audio returns normally (the task is idle
\* again, the flag is cleared, the lock is free), and an exception raised
\* while the audio or text content is read is absorbed and counted as exactly
\* one failed capture.
C25_CaptureAbsorbsErrors ==
    [][(CaptureRuns \/ CaptureSkipped)
          => /\ cap'.pc = "idle"
             /\ ~is_capturing'
             /\ lock' # CapTask
             /\ ReadingRaises(cap'.handle)
                  => /\ failed_captures' = failed_captures + 1
                     /\ total_captures' = total_captures]_vars

\* the capture of a speech with an unreadable frame has been counted as failed
C25_Witness ==
    /\ cap = [pc |-> "idle", handle |-> HandleBadFrame]
    /\ failed_captures = 1
    /\ total_captures = 0
    /\ asset.frame_count = 0

-----------------------------------------------------------------------------
\* Properties of the singleton

\* C26: get_audio_replay_service constructs at most one AudioReplayService,
\* and every call, of callers one after another or at once, returns that same
\* instance.
C26_OneInstance ==
    /\ instances <= 1
    /\ \A c \in Callers :
          callers[c].calls > 0 => callers[c].returned = 1

\* two callers found the variable unset, one constructed the instance, and
\* both, as well as a caller that has called twice, hold the same instance
C26_Witness ==
    /\ instances = 1
    /\ \A c \in Callers : callers[c].pc = "idle" /\ callers[c].returned = 1
    /\ \E c \in Callers : callers[c].calls = MaxCalls
    /\ \E c \in Callers : callers[c].calls = 1

-----------------------------------------------------------------------------
\* Properties of a rejected request

\* a step of invocation r after it was rejected at a precondition check and
\* before its fallback message has ended, and the step that rejects it
RejectedStep(r) ==
    \/ req[r].pc \in FallbackPcs /\ req'[r] # req[r]
    \/ Evaluates(r) /\ req'[r].pc \in FallbackPcs

\* C27: a request rejected at a precondition check leaves is_replaying,
\* is_capturing, the asset and the four counters unchanged, also when its
\* fallback message raises or is cancelled: it never clears the flag of a
\* replay still in flight and never counts as a failed replay.
C27_RejectionLeavesState ==
    [][\A r \in Reqs :
         RejectedStep(r) => /\ is_replaying' = is_replaying
                            /\ is_capturing' = is_capturing
                            /\ asset' = asset
                            /\ counters' = counters]_vars

\* the same for a request whose fallback message is spoken to its end
C27_UndisturbedRejectionLeavesState ==
    [][\A r \in Reqs :
         (RejectedStep(r) /\ req'[r].pc \in FallbackPcs \cup {"done"}
            /\ (req'[r].pc = "done" => req'[r].result.status \in UndisturbedStatuses))
           => /\ is_replaying' = is_replaying
              /\ is_capturing' = is_capturing
              /\ asset' = asset
              /\ counters' = counters]_vars

-----------------------------------------------------------------------------
\* Properties of what a successful replay has played

\* invocation r returns success from its playback
ReturnsSuccess(r) ==
    ReturnsFrom(r, "playing") /\ req'[r].result.status = "success"

\* C28: when a request returns success, its iterator has streamed at least
\* one frame and the whole buffer of the asset that was valid at the
\* precondition check, even if a capture or clear_audio ran between the check
\* and the iterator's snapshot.
C28_SuccessPlayedCheckedAsset ==
    [][\A r \in Reqs :
         ReturnsSuccess(r) => /\ req[r].it_frames >= 1
                              /\ req[r].it_sent = req[r].it_checked]_vars

\* C29: the metadata of a success response (text, duration_seconds,
\* frame_count, created_at) describes the asset whose audio that replay has
\* streamed, even if a capture replaced the asset while the replay was
\* streaming. Stated for the replays that streamed exactly the bytes of the
\* asset they took their snapshot of.
C29_SuccessDescribesPlayedAsset ==
    [][\A r \in Reqs :
         (ReturnsSuccess(r) /\ req[r].it_frames >= 1
            /\ req[r].it_sent = req[r].it_snap)
           => req'[r].result = req[r].it_meta]_vars

\* the same for the replays during which no capture changed the asset
C29_SuccessDescribesUnchangedAsset ==
    [][\A r \in Reqs :
         (ReturnsSuccess(r) /\ req[r].it_frames >= 1
            /\ SuccessResponse(asset) = req[r].it_meta)
           => req'[r].result = req[r].it_meta]_vars

-----------------------------------------------------------------------------
\* Properties of progress

\* C30: the service never deadlocks: when every say call returns once its
\* audio is exhausted and the session plays its say calls one at a time in
\* order, every replay request and every capture returns; a rejected request
\* that speaks its fallback message while it holds the lock never blocks for
\* ever the replay whose iterator waits for that lock.
C30_EveryCallReturns ==
    /\ \A r \in Reqs : (req[r].pc \notin {"idle", "done"}) ~> (req[r].pc = "done")
    /\ (cap.pc = "waiting") ~> (cap.pc = "idle")

\* a request that finds the lock free and no other request in flight returns
C30_LoneRequestReturns ==
    \A r \in Reqs :
        (req[r].pc \notin {"idle", "done", "wait_lock"} /\ InFlight = {r})
          ~> (req[r].pc = "done" \/ InFlight # {r})

=============================================================================
